---- MODULE Spec2Model ----
(***************************************************************************)
(* A model of the near-Earth-object database: the entity constructors      *)
(* (models.py), the row normalisation of the loader (extract.py), the      *)
(* linking and lookup engine (database.py) and the predicate system with   *)
(* its factory and the stream limiter (filters.py).                        *)
(*                                                                         *)
(* Objects are identified by their position in the collection that holds   *)
(* them: NEO i is neos[i], close approach j is approaches[j].  A reference *)
(* to an object is that position; the absent reference is NoNeo.           *)
(***************************************************************************)
EXTENDS Integers, Sequences, FiniteSets, TLC

VARIABLES
    neos,                \* NEODatabase._neos: sequence of NearEarthObject records
    approaches,          \* NEODatabase._approaches: sequence of CloseApproach records
    designation_to_neo,  \* NEODatabase._designation_to_neo: lowercased designation -> NEO
    name_to_neo,         \* NEODatabase._name_to_neo: lowercased name -> NEO
    pc,                  \* "new" before NEODatabase(...), then "ready" or "failed"
    call,                \* the last operation called and its argument
    ret,                 \* what that operation returned (a reference, NoNeo for None)
    err,                 \* the exception that operation raised, "none" if it returned
    filters,             \* the filter list of the running query / result of create_filters
    cursor,              \* the query generator: state, position in _approaches, how it ended
    out,                 \* the approaches the result stream has yielded so far
    second,              \* the result stream of a second query call: cursor and out
    criteria,            \* the keyword arguments given to create_filters
    args,                \* the arguments / CSV row given to the NEO constructor
    obj,                 \* the NearEarthObject under construction
    iterator,            \* limit: the upstream sequence and how much of it was pulled
    n,                   \* limit: the cap
    islice               \* limit: the returned stream

vars == <<neos, approaches, designation_to_neo, name_to_neo, pc, call, ret, err,
          filters, cursor, out, second, criteria, args, obj, iterator, n, islice>>

dbVars == <<neos, approaches, designation_to_neo, name_to_neo, pc>>
genVars == <<filters, cursor, out, second>>
factoryVars == <<criteria>>
entityVars == <<args, obj>>
limitVars == <<iterator, n, islice>>

(***************************************************************************)
(* Bounds of the model.                                                    *)
(***************************************************************************)
MaxNeos == 2
MaxApproaches == 2
MaxFilters == 2
MaxLen == 3
MaxCap == 3

(***************************************************************************)
(* Python values.  A value carries its type tag, its characters when it is *)
(* a string and its number when it is numeric; floats are modelled by      *)
(* integers, the not-a-number float by its own tag.                        *)
(***************************************************************************)
PyNone == [t |-> "None", s |-> <<>>, v |-> 0]
PyStr(chars) == [t |-> "str", s |-> chars, v |-> 0]
PyInt(i) == [t |-> "int", s |-> <<>>, v |-> i]
PyFloat(x) == [t |-> "float", s |-> <<>>, v |-> x]
PyBool(b) == [t |-> "bool", s |-> <<>>, v |-> IF b THEN 1 ELSE 0]
NaN == [t |-> "nan", s |-> <<>>, v |-> 0]

NoNeo == 0

\* str.lower() and str.upper(), on one character and on a string.
LowerChar(c) ==
    CASE c = "A" -> "a"
      [] c = "B" -> "b"
      [] c = "C" -> "c"
      [] c = "N" -> "n"
      [] c = "X" -> "x"
      [] c = "Y" -> "y"
      [] OTHER -> c

UpperChar(c) ==
    CASE c = "a" -> "A"
      [] c = "b" -> "B"
      [] c = "c" -> "C"
      [] c = "n" -> "N"
      [] c = "x" -> "X"
      [] c = "y" -> "Y"
      [] OTHER -> c

Lower(x) == PyStr([i \in DOMAIN x.s |-> LowerChar(x.s[i])])

Upper(x) == PyStr([i \in DOMAIN x.s |-> UpperChar(x.s[i])])

(***************************************************************************)
(* Entities as the database sees them.                                     *)
(***************************************************************************)
\* A NearEarthObject after construction: approaches starts empty.
NearEarthObject(designation, name, diameter, hazardous) ==
    [designation |-> designation, name |-> name, diameter |-> diameter,
     hazardous |-> hazardous, approaches |-> <<>>]

\* A CloseApproach after construction: neo starts absent.
CloseApproach(designation, time, distance, velocity) ==
    [designation |-> designation, time |-> time, distance |-> distance,
     velocity |-> velocity, neo |-> NoNeo]

\* Sequences of length lo..hi over a set.
SeqsOf(S, lo, hi) == UNION {[1..k -> S] : k \in lo..hi}

(***************************************************************************)
(* NEODatabase.__init__                                                    *)
(***************************************************************************)
\* d[key] = value, as a dict assignment: the last write wins.
DictSet(d, key, value) ==
    [k \in (DOMAIN d) \cup {key} |-> IF k = key THEN value ELSE d[k]]

EmptyDict == [k \in {} |-> NoNeo]

\* The first loop, from NEO i on: index every NEO under its lowercased
\* designation, and under its lowercased name when it has one.
RECURSIVE IndexNeos(_, _, _)
IndexNeos(ns, i, idx) ==
    IF i > Len(ns) THEN idx
    ELSE LET neo == ns[i]
             byDes == DictSet(idx.designation_to_neo, Lower(neo.designation), i)
             byName == IF neo.name # PyNone
                       THEN DictSet(idx.name_to_neo, Lower(neo.name), i)
                       ELSE idx.name_to_neo
         IN IndexNeos(ns, i + 1,
                [designation_to_neo |-> byDes, name_to_neo |-> byName])

\* One iteration of the second loop on approach j: look the NEO up (a
\* KeyError ends the construction), set app.neo, append app to neo.approaches.
\* (Three faulty variants come first: one forgets app.neo, one prepends, one
\* skips an unknown designation.  The properties below tell each from the code.)
LinkApproachNoNeo(st, idx, j) ==
    LET key == Lower(st.approaches[j].designation)
    IN IF key \notin DOMAIN idx
       THEN [st EXCEPT !.err = "KeyError"]
       ELSE LET neo == idx[key]
            IN [st EXCEPT !.neos[neo].approaches = Append(@, j)]

LinkApproachPrepend(st, idx, j) ==
    LET key == Lower(st.approaches[j].designation)
    IN IF key \notin DOMAIN idx
       THEN [st EXCEPT !.err = "KeyError"]
       ELSE LET neo == idx[key]
            IN [st EXCEPT !.approaches[j].neo = neo,
                          !.neos[neo].approaches = <<j>> \o @]

LinkApproachSkip(st, idx, j) ==
    LET key == Lower(st.approaches[j].designation)
    IN IF key \notin DOMAIN idx
       THEN st
       ELSE LET neo == idx[key]
            IN [st EXCEPT !.approaches[j].neo = neo,
                          !.neos[neo].approaches = Append(@, j)]

\* (A fourth faulty variant: the KeyError undoes the links made so far.)
LinkApproachRollback(st, idx, j) ==
    LET key == Lower(st.approaches[j].designation)
    IN IF key \notin DOMAIN idx
       THEN [neos |-> [i \in DOMAIN st.neos |->
                          [st.neos[i] EXCEPT !.approaches = <<>>]],
             approaches |-> [k \in DOMAIN st.approaches |->
                          [st.approaches[k] EXCEPT !.neo = NoNeo]],
             err |-> "KeyError"]
       ELSE LET neo == idx[key]
            IN [st EXCEPT !.approaches[j].neo = neo,
                          !.neos[neo].approaches = Append(@, j)]

LinkApproach(st, idx, j) ==
    LET key == Lower(st.approaches[j].designation)
    IN IF key \notin DOMAIN idx
       THEN [st EXCEPT !.err = "KeyError"]
       ELSE LET neo == idx[key]
            IN [st EXCEPT !.approaches[j].neo = neo,
                          !.neos[neo].approaches = Append(@, j)]

\* The second loop, from approach j on; it stops at the first KeyError.
RECURSIVE LinkApproaches(_, _, _)
LinkApproaches(st, idx, j) ==
    IF j > Len(st.approaches) \/ st.err # "none" THEN st
    ELSE LinkApproaches(LinkApproach(st, idx, j), idx, j + 1)

\* NEODatabase(neos, approaches)
Construct ==
    /\ pc = "new"
    /\ LET idx == IndexNeos(neos, 1,
                    [designation_to_neo |-> EmptyDict, name_to_neo |-> EmptyDict])
           st == LinkApproaches([neos |-> neos, approaches |-> approaches,
                                 err |-> "none"], idx.designation_to_neo, 1)
       IN /\ designation_to_neo' = idx.designation_to_neo
          /\ name_to_neo' = idx.name_to_neo
          /\ neos' = st.neos
          /\ approaches' = st.approaches
          /\ err' = st.err
          /\ pc' = IF st.err = "none" THEN "ready" ELSE "failed"
    /\ call' = [op |-> "NEODatabase", arg |-> PyNone]
    /\ ret' = NoNeo
    /\ UNCHANGED <<genVars, factoryVars, entityVars, limitVars>>

(***************************************************************************)
(* NEODatabase.get_neo_by_designation / get_neo_by_name                    *)
(***************************************************************************)
\* dict.get(key): the value, or None when the key is missing.
DictGet(d, key) == IF key \in DOMAIN d THEN d[key] ELSE NoNeo

\* Faulty variant: the key is not lowercased.
get_neo_by_designation_exact(designation) ==
    DictGet(designation_to_neo, designation)

get_neo_by_designation(designation) ==
    DictGet(designation_to_neo, Lower(designation))

get_neo_by_name(name) ==
    DictGet(name_to_neo, Lower(name))

GetNeoByDesignation(key) ==
    /\ pc = "ready"
    /\ call' = [op |-> "get_neo_by_designation", arg |-> key]
    /\ ret' = get_neo_by_designation(key)
    /\ err' = "none"
    /\ UNCHANGED <<dbVars, genVars, factoryVars, entityVars, limitVars>>

GetNeoByName(key) ==
    /\ pc = "ready"
    /\ call' = [op |-> "get_neo_by_name", arg |-> key]
    /\ ret' = get_neo_by_name(key)
    /\ err' = "none"
    /\ UNCHANGED <<dbVars, genVars, factoryVars, entityVars, limitVars>>

(***************************************************************************)
(* AttributeFilter and its five subclasses                                 *)
(***************************************************************************)
\* A filter object: its class, and the op and value given to __init__.
AttributeFilter(cls, op, value) == [cls |-> cls, op |-> op, value |-> value]

\* An exception in flight, in place of the value an expression would have.
Raise(exc) == [t |-> exc, s |-> <<>>, v |-> 0]

IsException(x) == x.t \in {"AttributeError", "UnsupportedCriterionError"}

\* cls.get(approach): the attribute of interest, or the exception raised.
Get(cls, approach, ns) ==
    CASE cls = "DateFilter" -> [t |-> "date", s |-> <<>>, v |-> approach.time.date]
      [] cls = "DistanceFilter" -> approach.distance
      [] cls = "VelocityFilter" -> approach.velocity
      [] cls = "DiameterFilter" ->
            IF approach.neo = NoNeo THEN Raise("AttributeError")
            ELSE ns[approach.neo].diameter
      [] cls = "HazardousFilter" ->
            IF approach.neo = NoNeo THEN Raise("AttributeError")
            ELSE PyBool(ns[approach.neo].hazardous)
      [] OTHER -> Raise("UnsupportedCriterionError")

\* operator.eq / operator.ge / operator.le on two numbers, dates or booleans:
\* every comparison with not-a-number is false.
\* (Faulty variant first: not-a-number compared as an ordinary number.)
OperatorIgnoringNaN(op, a, b) ==
    CASE op = "eq" -> a.v = b.v
      [] op = "ge" -> a.v >= b.v
      [] op = "le" -> a.v <= b.v

Operator(op, a, b) ==
    /\ a.t # "nan"
    /\ b.t # "nan"
    /\ CASE op = "eq" -> a.v = b.v
         [] op = "ge" -> a.v >= b.v
         [] op = "le" -> a.v <= b.v

\* AttributeFilter.__call__: "True", "False" or the exception raised.
FilterCall(f, approach, ns) ==
    LET got == Get(f.cls, approach, ns)
    IN IF IsException(got) THEN got.t
       ELSE IF Operator(f.op, got, f.value) THEN "True" ELSE "False"

(***************************************************************************)
(* NEODatabase.query                                                       *)
(***************************************************************************)
\* The inner loop from filter k on: the semaphor after it ("True"/"False"),
\* or the exception a filter raised.  It breaks at the first failing filter.
RECURSIVE Semaphor(_, _, _, _)
\* (Faulty variants first: the last filter alone decides; no filter matches
\* nothing.)
SemaphorLastWins(fs, k, approach, ns) ==
    IF k > Len(fs) THEN "True" ELSE FilterCall(fs[Len(fs)], approach, ns)

SemaphorAny(fs, k, approach, ns) ==
    IF fs # <<>> /\ \A i \in k..Len(fs) : FilterCall(fs[i], approach, ns) = "True"
    THEN "True" ELSE "False"

Semaphor(fs, k, approach, ns) ==
    IF k > Len(fs) THEN "True"
    ELSE LET r == FilterCall(fs[k], approach, ns)
         IN IF r = "True" THEN Semaphor(fs, k + 1, approach, ns) ELSE r

\* One next() on the generator, resuming at approach j: the outer loop runs
\* to the next yield, to the end of the collection or to an exception.
RECURSIVE Resume(_, _, _, _)
Resume(fs, j, as, ns) ==
    IF j > Len(as) THEN [kind |-> "StopIteration", at |-> j]
    ELSE LET sem == Semaphor(fs, 1, as[j], ns)
         IN IF sem = "True" THEN [kind |-> "yield", at |-> j]
            ELSE IF sem = "False" THEN Resume(fs, j + 1, as, ns)
            ELSE [kind |-> sem, at |-> j]

\* The whole result stream, consumed from approach j on: what it yields and
\* how it ends (StopIteration, or the exception a filter raised).
RECURSIVE Drain(_, _, _, _, _)
Drain(fs, j, as, ns, acc) ==
    LET r == Resume(fs, j, as, ns)
    IN IF r.kind = "yield" THEN Drain(fs, r.at + 1, as, ns, Append(acc, r.at))
       ELSE [out |-> acc, exc |-> r.kind]

NoCursor == [state |-> "none", pos |-> 0, exc |-> "none"]

NoSecond == [cursor |-> NoCursor, out |-> <<>>]

\* db.query(fs): creates the generator; nothing runs before the first next().
Query(fs) ==
    /\ pc = "ready"
    /\ filters' = fs
    /\ cursor' = [state |-> "created", pos |-> 0, exc |-> "none"]
    /\ out' = <<>>
    /\ call' = [op |-> "query", arg |-> PyNone]
    /\ ret' = NoNeo
    /\ err' = "none"
    /\ UNCHANGED <<second, dbVars, factoryVars, entityVars, limitVars>>

\* (Faulty variant first: the yielded approach is linked to its NEO once more.)
QueryNextRelinking ==
    /\ cursor.state \in {"created", "suspended"}
    /\ LET r == Resume(filters, cursor.pos + 1, approaches, neos)
       IN IF r.kind = "yield"
          THEN /\ cursor' = [state |-> "suspended", pos |-> r.at, exc |-> "none"]
               /\ out' = Append(out, r.at)
               /\ ret' = r.at
               /\ err' = "none"
               /\ neos' = [neos EXCEPT ![approaches[r.at].neo].approaches =
                                           Append(@, r.at)]
          ELSE /\ cursor' = [state |-> "done", pos |-> r.at, exc |-> r.kind]
               /\ out' = out
               /\ ret' = NoNeo
               /\ err' = r.kind
               /\ neos' = neos
    /\ call' = [op |-> "next", arg |-> PyNone]
    /\ UNCHANGED <<filters, second, approaches, designation_to_neo, name_to_neo, pc,
                   factoryVars, entityVars, limitVars>>

\* next() on the result stream of the last query.
QueryNext ==
    /\ cursor.state \in {"created", "suspended"}
    /\ LET r == Resume(filters, cursor.pos + 1, approaches, neos)
       IN IF r.kind = "yield"
          THEN /\ cursor' = [state |-> "suspended", pos |-> r.at, exc |-> "none"]
               /\ out' = Append(out, r.at)
               /\ ret' = r.at
               /\ err' = "none"
          ELSE /\ cursor' = [state |-> "done", pos |-> r.at, exc |-> r.kind]
               /\ out' = out
               /\ ret' = NoNeo
               /\ err' = r.kind
    /\ call' = [op |-> "next", arg |-> PyNone]
    /\ UNCHANGED <<filters, second, dbVars, factoryVars, entityVars, limitVars>>

(***************************************************************************)
(* The linking specification: a database is built from any small          *)
(* collection of NEOs and approaches, then looked up and streamed.         *)
(***************************************************************************)
NeoDesignations == {PyStr(<<"a", "1">>), PyStr(<<"A", "1">>), PyStr(<<"b", "1">>)}
ApproachDesignations ==
    {PyStr(<<"a", "1">>), PyStr(<<"A", "1">>), PyStr(<<"B", "1">>), PyStr(<<"c", "1">>)}
Names == {PyNone, PyStr(<<"x">>), PyStr(<<"X">>)}
DesignationKeys == {PyStr(<<"A", "1">>), PyStr(<<"b", "1">>), PyStr(<<"c", "1">>)}
NameKeys == {PyStr(<<"X">>), PyStr(<<"y">>)}
Time0 == [date |-> 1, minute |-> 0]

Idle ==
    /\ call = [op |-> "none", arg |-> PyNone]
    /\ ret = NoNeo
    /\ err = "none"
    /\ filters = <<>>
    /\ cursor = NoCursor
    /\ out = <<>>
    /\ second = NoSecond
    /\ criteria = <<>>
    /\ args = <<>>
    /\ obj = PyNone
    /\ iterator = [items |-> <<>>, pulled |-> 0]
    /\ n = PyNone
    /\ islice = [state |-> "none", count |-> 0, out |-> <<>>]

Init ==
    /\ neos \in SeqsOf({NearEarthObject(d, nm, PyFloat(1), FALSE) :
                            d \in NeoDesignations, nm \in Names}, 0, MaxNeos)
    /\ approaches \in SeqsOf({CloseApproach(d, Time0, PyFloat(1), PyFloat(1)) :
                            d \in ApproachDesignations}, 0, MaxApproaches)
    /\ designation_to_neo = EmptyDict
    /\ name_to_neo = EmptyDict
    /\ pc = "new"
    /\ Idle

Next ==
    \/ Construct
    \/ \E key \in DesignationKeys : GetNeoByDesignation(key)
    \/ \E key \in NameKeys : GetNeoByName(key)
    \/ Query(<<>>)
    \/ QueryNext

Spec == Init /\ [][Next]_vars

(***************************************************************************)
(* Properties of linking, lookup and the unfiltered stream (Spec).         *)
(***************************************************************************)
\* NEO i and approach j carry the same designation, case ignored.
SameDesignation(i, j) ==
    Lower(neos[i].designation) = Lower(approaches[j].designation)

\* The input approaches whose designation matches NEO i's.
MatchingApproaches(i) == {j \in 1..Len(approaches) : SameDesignation(i, j)}

\* A later NEO of the collection has the same lowercased designation.
Shadowed(i) ==
    \E i2 \in (i + 1)..Len(neos) :
        Lower(neos[i2].designation) = Lower(neos[i].designation)

\* s lists exactly the approaches of S, in the order of the input collection.
ListsInInputOrder(s, S) ==
    /\ Len(s) = Cardinality(S)
    /\ {s[k] : k \in 1..Len(s)} = S
    /\ \A k1, k2 \in 1..Len(s) : k1 < k2 => s[k1] < s[k2]

\* C1: after a successful construction every approach yielded by query(())
\* has a neo, and that neo's designation equals the approach's designation
\* when both are lowercased.
C1_YieldedApproachesLinked ==
    (pc = "ready" /\ filters = <<>>) =>
        \A k \in 1..Len(out) :
            LET app == approaches[out[k]]
            IN /\ app.neo # NoNeo
               /\ app.neo \in 1..Len(neos)
               /\ Lower(neos[app.neo].designation) = Lower(app.designation)

C1_Witness ==
    /\ pc = "ready"
    /\ filters = <<>>
    /\ cursor.state = "done"
    /\ Len(out) >= 2
    /\ approaches[out[1]].neo # approaches[out[2]].neo
    /\ approaches[out[2]].designation # neos[approaches[out[2]].neo].designation

\* C2 as stated: after construction every NEO of the collection lists, in
\* input order, exactly the input approaches whose designation matches its own.
C2_EveryNeoListsItsApproaches ==
    pc = "ready" =>
        \A i \in 1..Len(neos) :
            ListsInInputOrder(neos[i].approaches, MatchingApproaches(i))

\* C2 amended: after construction every NEO whose lowercased designation is
\* not repeated by a later NEO of the collection lists, in input order,
\* exactly the input approaches whose designation matches its own; a NEO
\* whose lowercased designation is repeated later has no approaches.
C2_LastNeoListsItsApproaches ==
    pc = "ready" =>
        \A i \in 1..Len(neos) :
            IF Shadowed(i)
            THEN neos[i].approaches = <<>>
            ELSE ListsInInputOrder(neos[i].approaches, MatchingApproaches(i))

C2_Witness ==
    /\ pc = "ready"
    /\ \E i \in 1..Len(neos) :
          /\ ~Shadowed(i)
          /\ Len(neos[i].approaches) >= 2
          /\ approaches[neos[i].approaches[1]].designation
                # approaches[neos[i].approaches[2]].designation
    /\ \E i \in 1..Len(neos) : Shadowed(i) /\ MatchingApproaches(i) # {}

\* C3: get_neo_by_designation(key) and get_neo_by_name(key) match with case
\* ignored and return the NEO indexed under the key (the last one of the
\* collection that matches), or None when no NEO matches; they do not raise,
\* and get_neo_by_name never returns a NEO without a name.
C3_LookupsMatchCaseInsensitively ==
    /\ call.op = "get_neo_by_designation" =>
          LET hits == {i \in 1..Len(neos) :
                          Lower(neos[i].designation) = Lower(call.arg)}
          IN /\ err = "none"
             /\ (ret = NoNeo) <=> (hits = {})
             /\ ret # NoNeo =>
                   /\ ret \in hits
                   /\ \A i \in hits : i <= ret
                   /\ designation_to_neo[Lower(call.arg)] = ret
    /\ call.op = "get_neo_by_name" =>
          LET hits == {i \in 1..Len(neos) :
                          /\ neos[i].name # PyNone
                          /\ Lower(neos[i].name) = Lower(call.arg)}
          IN /\ err = "none"
             /\ (ret = NoNeo) <=> (hits = {})
             /\ ret # NoNeo =>
                   /\ ret \in hits
                   /\ neos[ret].name # PyNone
                   /\ \A i \in hits : i <= ret
                   /\ name_to_neo[Lower(call.arg)] = ret

C3_Witness ==
    /\ call.op = "get_neo_by_designation"
    /\ ret # NoNeo
    /\ neos[ret].designation # call.arg
    /\ \E i \in 1..Len(neos) : neos[i].name = PyNone

\* C4: query with no filter yields every approach of the collection exactly
\* once, in the order of the collection.
C4_UnfilteredQueryYieldsAll ==
    (filters = <<>> /\ cursor.state # "none") =>
        /\ out = [k \in 1..Len(out) |-> k]
        /\ Len(out) <= Len(approaches)
        /\ cursor.state = "done" => Len(out) = Len(approaches)

C4_Witness ==
    /\ filters = <<>>
    /\ cursor.state = "done"
    /\ Len(approaches) >= 2
    /\ out = [k \in 1..Len(approaches) |-> k]

\* C7: the construction succeeds when every approach's lowercased
\* designation is the lowercased designation of some NEO, leaving no approach
\* unlinked, and fails with a KeyError as soon as one approach matches no NEO.
C7_ConstructionRaisesOnUnknownDesignation ==
    LET known(j) == \E i \in 1..Len(neos) : SameDesignation(i, j)
    IN pc # "new" =>
          /\ (pc = "ready") <=> (\A j \in 1..Len(approaches) : known(j))
          /\ pc = "failed" => err = "KeyError"
          /\ pc = "ready" => \A j \in 1..Len(approaches) : approaches[j].neo # NoNeo

C7_Witness ==
    /\ pc = "failed"
    /\ err = "KeyError"
    /\ Len(approaches) >= 2
    /\ approaches[1].neo # NoNeo
    /\ approaches[2].neo = NoNeo

(***************************************************************************)
(* The query specification: a database over a fixed NEO collection and a   *)
(* small approach collection is built, then queried with filter lists.     *)
(***************************************************************************)
QueryNeos ==
    << NearEarthObject(PyStr(<<"n", "1">>), PyNone, NaN, TRUE),
       NearEarthObject(PyStr(<<"n", "2">>), PyStr(<<"x">>), PyFloat(2), FALSE),
       NearEarthObject(PyStr(<<"n", "3">>), PyNone, PyFloat(1), TRUE) >>

QueryApproaches ==
    { CloseApproach(PyStr(<<"N", "1">>), [date |-> 1, minute |-> 0], PyFloat(1), PyFloat(2)),
      CloseApproach(PyStr(<<"n", "2">>), [date |-> 2, minute |-> 5], PyFloat(2), PyFloat(1)),
      CloseApproach(PyStr(<<"N", "3">>), [date |-> 1, minute |-> 5], PyFloat(2), PyFloat(2)),
      CloseApproach(PyStr(<<"n", "1">>), [date |-> 2, minute |-> 0], PyFloat(2), PyFloat(2)),
      CloseApproach(PyStr(<<"N", "2">>), [date |-> 1, minute |-> 0], PyFloat(1), PyFloat(1)) }

PyDate(d) == [t |-> "date", s |-> <<>>, v |-> d]

\* Filters as create_filters builds them, and the unspecialised base class.
FilterPool ==
    { AttributeFilter("DateFilter", "eq", PyDate(1)),
      AttributeFilter("DateFilter", "ge", PyDate(2)),
      AttributeFilter("DateFilter", "le", PyDate(1)),
      AttributeFilter("DistanceFilter", "ge", PyFloat(2)),
      AttributeFilter("DistanceFilter", "le", PyFloat(1)),
      AttributeFilter("VelocityFilter", "ge", PyFloat(2)),
      AttributeFilter("DiameterFilter", "ge", PyFloat(1)),
      AttributeFilter("DiameterFilter", "le", PyFloat(3)),
      AttributeFilter("DiameterFilter", "ge", NaN),
      AttributeFilter("HazardousFilter", "eq", PyBool(TRUE)),
      AttributeFilter("AttributeFilter", "eq", PyInt(0)) }

FilterLists == SeqsOf(FilterPool, 0, MaxFilters)

InitQuery ==
    /\ neos = QueryNeos
    /\ approaches \in SeqsOf(QueryApproaches, 1, MaxApproaches)
    /\ designation_to_neo = EmptyDict
    /\ name_to_neo = EmptyDict
    /\ pc = "new"
    /\ Idle

NextQuery ==
    \/ Construct
    \/ /\ cursor.state = "none"
       /\ \E fs \in FilterLists : Query(fs)
    \/ QueryNext

SpecQuery == InitQuery /\ [][NextQuery]_vars

(***************************************************************************)
(* Properties of filtered queries (SpecQuery).                             *)
(***************************************************************************)
\* The permutations of 1..m, and a list reordered by one.
Orderings(m) ==
    {p \in [1..m -> 1..m] : \A a, b \in 1..m : p[a] = p[b] => a = b}

Permute(fs, p) == [k \in 1..Len(fs) |-> fs[p[k]]]

\* Every predicate of fs, evaluated on its own on approach j, is true.
AllTrue(fs, j) ==
    \A k \in 1..Len(fs) : FilterCall(fs[k], approaches[j], neos) = "True"

\* The approaches on which every predicate of fs is true, in collection order.
IsSelection(s, fs) ==
    ListsInInputOrder(s, {j \in 1..Len(approaches) : AllTrue(fs, j)})

\* The finished stream is the AND-selection, and every reordering of the
\* filter list gives the same stream with the same ending.
SameForEveryOrder ==
    /\ IsSelection(out, filters)
    /\ \A p \in Orderings(Len(filters)) :
          Drain(Permute(filters, p), 1, approaches, neos, <<>>)
              = [out |-> out, exc |-> cursor.exc]

OnlyVariants(fs) == \A k \in 1..Len(fs) : fs[k].cls # "AttributeFilter"

\* C5 as stated: for every predicate list, the finished query has yielded
\* exactly the approaches on which every predicate is true, and permuting the
\* list does not change the outcome of the query.
C5_AnyListOrderIndependent ==
    cursor.state = "done" => SameForEveryOrder

\* C5 amended: for every list of predicates of the five attribute variants,
\* the query ends without an exception having yielded exactly the approaches
\* on which every predicate is true, and permuting the list does not change
\* the outcome; a list holding the unspecialised base predicate raises
\* UnsupportedCriterionError or ends normally depending on the order.
C5_VariantListOrderIndependent ==
    (cursor.state = "done" /\ OnlyVariants(filters)) =>
        /\ cursor.exc = "StopIteration"
        /\ SameForEveryOrder

C5_Witness ==
    /\ cursor.state = "done"
    /\ OnlyVariants(filters)
    /\ Len(filters) = 2
    /\ filters[1].cls # filters[2].cls
    /\ Len(out) = 1
    /\ \E j \in 1..Len(approaches) :
          /\ FilterCall(filters[1], approaches[j], neos) = "True"
          /\ FilterCall(filters[2], approaches[j], neos) = "False"

\* C10: a diameter predicate evaluated on an approach whose NEO has the
\* unknown diameter is false and raises nothing, so a query with a diameter
\* predicate never yields an approach of a NEO with unknown diameter.
C10_UnknownDiameterNeverMatches ==
    pc = "ready" =>
        \A k \in 1..Len(filters) :
            filters[k].cls = "DiameterFilter" =>
                /\ \A j \in 1..Len(approaches) :
                      neos[approaches[j].neo].diameter = NaN =>
                          FilterCall(filters[k], approaches[j], neos) = "False"
                /\ \A y \in 1..Len(out) :
                      neos[approaches[out[y]].neo].diameter # NaN

C10_Witness ==
    /\ cursor.state = "done"
    /\ filters = <<AttributeFilter("DiameterFilter", "le", PyFloat(3))>>
    /\ Len(out) = 1
    /\ \E j \in 1..Len(approaches) : neos[approaches[j].neo].diameter = NaN

(***************************************************************************)
(* limit                                                                   *)
(***************************************************************************)
\* next() on the upstream iterator: the item pulled, or StopIteration.
Pull(it) ==
    IF it.pulled < Len(it.items)
    THEN [kind |-> "yield", item |-> it.items[it.pulled + 1],
          it |-> [it EXCEPT !.pulled = @ + 1]]
    ELSE [kind |-> "StopIteration", item |-> "", it |-> it]

\* `n is None or n == 0`: the iterator itself is returned.
\* (Faulty variant first: a cap of 0 is taken as a cap.)
UnlimitedIfNone(cap) == cap = PyNone

Unlimited(cap) == cap = PyNone \/ cap.v = 0

\* itertools.islice(iterator, n) has already produced its n items.
\* (Faulty variant first: one item too many.)
IsliceSpentOffByOne(count, cap) == count > cap.v

IsliceSpent(count, cap) == count >= cap.v

\* limit(iterator, n): no item is pulled by the call.
Limit ==
    /\ islice.state = "none"
    /\ call' = [op |-> "limit", arg |-> n]
    /\ IF Unlimited(n)
       THEN /\ islice' = [islice EXCEPT !.state = "iterator"]
            /\ err' = "none"
       ELSE IF n.v < 0
       THEN /\ islice' = [islice EXCEPT !.state = "done"]
            /\ err' = "ValueError"
       ELSE /\ islice' = [islice EXCEPT !.state = "islice"]
            /\ err' = "none"
    /\ UNCHANGED <<ret, iterator, n, dbVars, genVars, factoryVars, entityVars>>

\* next() on what limit returned.
LimitNext ==
    /\ islice.state \in {"iterator", "islice"}
    /\ call' = [op |-> "next", arg |-> PyNone]
    /\ IF islice.state = "islice" /\ IsliceSpent(islice.count, n)
       THEN /\ islice' = [islice EXCEPT !.state = "done"]
            /\ err' = "StopIteration"
            /\ UNCHANGED iterator
       ELSE LET r == Pull(iterator)
            IN /\ iterator' = r.it
               /\ IF r.kind = "yield"
                  THEN /\ islice' = [islice EXCEPT !.count = @ + 1,
                                                   !.out = Append(@, r.item)]
                       /\ err' = "none"
                  ELSE /\ islice' = [islice EXCEPT !.state = "done"]
                       /\ err' = "StopIteration"
    /\ UNCHANGED <<ret, n, dbVars, genVars, factoryVars, entityVars>>

Items == {"p", "q"}
Caps == {PyNone} \cup {PyInt(k) : k \in (0 - 1)..MaxCap}

InitLimit ==
    /\ neos = <<>>
    /\ approaches = <<>>
    /\ designation_to_neo = EmptyDict
    /\ name_to_neo = EmptyDict
    /\ pc = "new"
    /\ call = [op |-> "none", arg |-> PyNone]
    /\ ret = NoNeo
    /\ err = "none"
    /\ filters = <<>>
    /\ cursor = NoCursor
    /\ out = <<>>
    /\ second = NoSecond
    /\ criteria = <<>>
    /\ args = <<>>
    /\ obj = PyNone
    /\ iterator \in {[items |-> q, pulled |-> 0] : q \in SeqsOf(Items, 0, MaxLen)}
    /\ n \in Caps
    /\ islice = [state |-> "none", count |-> 0, out |-> <<>>]

NextLimit ==
    \/ Limit
    \/ LimitNext

SpecLimit == InitLimit /\ [][NextLimit]_vars

\* C6: limit(seq, 0) and limit(seq, None) return the sequence itself and so
\* yield all of it; for k > 0, limit(seq, k) yields exactly min(k, len(seq))
\* items, the first items of seq in their order.
C6_LimitYieldsFirstItems ==
    LET items == iterator.items
        len == Len(items)
    IN /\ islice.state # "none" =>
             /\ Len(islice.out) <= len
             /\ islice.out = SubSeq(items, 1, Len(islice.out))
       /\ (islice.state # "none" /\ (n = PyNone \/ n = PyInt(0))) =>
             /\ islice.state \in {"iterator", "done"}
             /\ islice.state = "done" => islice.out = items
       /\ (islice.state = "done" /\ n # PyNone /\ n.v > 0) =>
             Len(islice.out) = IF n.v < len THEN n.v ELSE len

C6_Witness ==
    /\ islice.state = "done"
    /\ n # PyNone
    /\ n.v > 0
    /\ n.v < Len(iterator.items)
    /\ Len(islice.out) = n.v
    /\ iterator.items[1] # iterator.items[2]

(***************************************************************************)
(* Conversions: float(x), bool(x)                                          *)
(***************************************************************************)
IsDigit(c) == c \in {"0", "1", "2", "3"}

DigitValue(c) ==
    CASE c = "1" -> 1
      [] c = "2" -> 2
      [] c = "3" -> 3
      [] OTHER -> 0

\* The number a string of decimal digits denotes.
RECURSIVE Decimal(_)
Decimal(chars) ==
    IF chars = <<>> THEN 0
    ELSE 10 * Decimal(SubSeq(chars, 1, Len(chars) - 1)) + DigitValue(chars[Len(chars)])

\* float(x): None is a TypeError, a string is parsed ("nan" in any case is
\* not-a-number, anything that is no number a ValueError), a number converts.
Float(x) ==
    CASE x.t = "None" -> Raise("TypeError")
      [] x.t = "str" ->
            IF Lower(x) = PyStr(<<"n", "a", "n">>) THEN NaN
            ELSE IF x.s # <<>> /\ \A i \in DOMAIN x.s : IsDigit(x.s[i])
                 THEN PyFloat(Decimal(x.s))
                 ELSE Raise("ValueError")
      [] x.t \in {"int", "bool"} -> PyFloat(x.v)
      [] OTHER -> x

\* The truth value of x.
Truthy(x) ==
    CASE x.t = "None" -> FALSE
      [] x.t = "str" -> x.s # <<>>
      [] x.t = "nan" -> TRUE
      [] OTHER -> x.v # 0

Bool(x) == PyBool(Truthy(x))

(***************************************************************************)
(* create_filters                                                          *)
(***************************************************************************)
\* `x is not None`
\* (Faulty variant first: `if x`, which drops 0 and False.)
SuppliedIfTruthy(x) == Truthy(x)

Supplied(x) == x # PyNone

\* `if x is not None: filters.append(f)`
AppendIf(fs, x, f) == IF Supplied(x) THEN Append(fs, f) ELSE fs

create_filters(c) ==
    LET f1 == AppendIf(<<>>, c.date,
                  AttributeFilter("DateFilter", "eq", c.date))
        f2 == AppendIf(f1, c.start_date,
                  AttributeFilter("DateFilter", "ge", c.start_date))
        f3 == AppendIf(f2, c.end_date,
                  AttributeFilter("DateFilter", "le", c.end_date))
        f4 == AppendIf(f3, c.distance_min,
                  AttributeFilter("DistanceFilter", "ge", Float(c.distance_min)))
        f5 == AppendIf(f4, c.distance_max,
                  AttributeFilter("DistanceFilter", "le", Float(c.distance_max)))
        f6 == AppendIf(f5, c.velocity_min,
                  AttributeFilter("VelocityFilter", "ge", Float(c.velocity_min)))
        f7 == AppendIf(f6, c.velocity_max,
                  AttributeFilter("VelocityFilter", "le", Float(c.velocity_max)))
        f8 == AppendIf(f7, c.diameter_min,
                  AttributeFilter("DiameterFilter", "ge", Float(c.diameter_min)))
        f9 == AppendIf(f8, c.diameter_max,
                  AttributeFilter("DiameterFilter", "le", Float(c.diameter_max)))
    IN AppendIf(f9, c.hazardous,
                  AttributeFilter("HazardousFilter", "eq", Bool(c.hazardous)))

CreateFilters ==
    /\ call.op = "none"
    /\ call' = [op |-> "create_filters", arg |-> PyNone]
    /\ filters' = create_filters(criteria)
    /\ err' = "none"
    /\ UNCHANGED <<ret, cursor, out, second, criteria, dbVars, entityVars, limitVars>>

\* The criteria a caller may give: each is absent or a typed value, zero and
\* False among them.
Dates == {PyNone, PyDate(1)}
MinCriteria == {PyNone, PyInt(0), PyFloat(2)}
MaxCriteria == {PyNone, PyFloat(2)}
Flags == {PyNone, PyBool(FALSE), PyBool(TRUE)}

InitFilters ==
    /\ neos = <<>>
    /\ approaches = <<>>
    /\ designation_to_neo = EmptyDict
    /\ name_to_neo = EmptyDict
    /\ pc = "new"
    /\ call = [op |-> "none", arg |-> PyNone]
    /\ ret = NoNeo
    /\ err = "none"
    /\ filters = <<>>
    /\ cursor = NoCursor
    /\ out = <<>>
    /\ second = NoSecond
    /\ criteria \in [date : Dates, start_date : Dates, end_date : Dates,
                     distance_min : MinCriteria, distance_max : MinCriteria,
                     velocity_min : MinCriteria, velocity_max : MaxCriteria,
                     diameter_min : MinCriteria, diameter_max : MaxCriteria,
                     hazardous : Flags]
    /\ args = <<>>
    /\ obj = PyNone
    /\ iterator = [items |-> <<>>, pulled |-> 0]
    /\ n = PyNone
    /\ islice = [state |-> "none", count |-> 0, out |-> <<>>]

NextFilters == CreateFilters

SpecFilters == InitFilters /\ [][NextFilters]_vars

\* The criteria in the order of the output list, and for each the variant,
\* the operator and the coercion of its predicate.
CriteriaOrder ==
    <<"date", "start_date", "end_date", "distance_min", "distance_max",
      "velocity_min", "velocity_max", "diameter_min", "diameter_max", "hazardous">>

ExpectedFilter(name, x) ==
    CASE name = "date" -> [cls |-> "DateFilter", op |-> "eq", value |-> x]
      [] name = "start_date" -> [cls |-> "DateFilter", op |-> "ge", value |-> x]
      [] name = "end_date" -> [cls |-> "DateFilter", op |-> "le", value |-> x]
      [] name = "distance_min" ->
            [cls |-> "DistanceFilter", op |-> "ge", value |-> PyFloat(x.v)]
      [] name = "distance_max" ->
            [cls |-> "DistanceFilter", op |-> "le", value |-> PyFloat(x.v)]
      [] name = "velocity_min" ->
            [cls |-> "VelocityFilter", op |-> "ge", value |-> PyFloat(x.v)]
      [] name = "velocity_max" ->
            [cls |-> "VelocityFilter", op |-> "le", value |-> PyFloat(x.v)]
      [] name = "diameter_min" ->
            [cls |-> "DiameterFilter", op |-> "ge", value |-> PyFloat(x.v)]
      [] name = "diameter_max" ->
            [cls |-> "DiameterFilter", op |-> "le", value |-> PyFloat(x.v)]
      [] name = "hazardous" ->
            [cls |-> "HazardousFilter", op |-> "eq", value |-> PyBool(x.v # 0)]

\* C8: create_filters returns one predicate per supplied criterion and none
\* for an omitted one, each with the matching variant, operator and coerced
\* value, in the order date, start date, end date, distance min/max, velocity
\* min/max, diameter min/max, hazardous; 0 and False count as supplied.
C8_OnePredicatePerSuppliedCriterion ==
    call.op = "create_filters" =>
        LET IsSupplied(name) == criteria[name].t # "None"
            supplied == SelectSeq(CriteriaOrder, IsSupplied)
        IN /\ Len(filters) = Len(supplied)
           /\ \A k \in 1..Len(supplied) :
                 filters[k] = ExpectedFilter(supplied[k], criteria[supplied[k]])

C8_Witness ==
    /\ call.op = "create_filters"
    /\ criteria.date = PyNone
    /\ criteria.start_date # PyNone
    /\ criteria.distance_min = PyInt(0)
    /\ criteria.diameter_max = PyFloat(2)
    /\ criteria.hazardous = PyBool(FALSE)
    /\ Len(filters) >= 4
    /\ filters[Len(filters)] =
          AttributeFilter("HazardousFilter", "eq", PyBool(FALSE))

(***************************************************************************)
(* NearEarthObject.__init__ and the row normalisation of load_neos         *)
(***************************************************************************)
\* The outcome of a constructor call: the exception raised, or the object.
NoObject == NearEarthObject(PyNone, PyNone, PyNone, FALSE)

\* NearEarthObject(designation, name, diameter, hazardous); an omitted
\* name or diameter is None, an omitted hazardous is False.
NearEarthObjectInit(designation, name, diameter, hazardous) ==
    IF designation = PyNone \/ designation = PyStr(<<>>)
    THEN [exc |-> "AssertionError", neo |-> NoObject]
    ELSE LET asFloat == Float(diameter)
         IN IF asFloat.t \in {"TypeError", "ValueError"}
            THEN [exc |-> asFloat.t, neo |-> NoObject]
            ELSE IF ~(asFloat.t = "nan" \/ asFloat.v > 0)
            THEN [exc |-> "AssertionError", neo |-> NoObject]
            ELSE [exc |-> "none",
                  neo |-> NearEarthObject(designation,
                              IF name = PyNone THEN PyNone ELSE name,
                              asFloat,
                              IF ~Truthy(hazardous) THEN FALSE ELSE Truthy(hazardous))]

\* _is_empty(field)
IsEmpty(field) == IF field = PyNone \/ field # PyStr(<<>>) THEN FALSE ELSE TRUE

\* _normalize_diameter(diameter): the float, or the string 'nan'.
NormalizeDiameter(diameter) ==
    LET asFloat == Float(diameter)
    IN IF asFloat.t = "ValueError" THEN PyStr(<<"n", "a", "n">>) ELSE asFloat

\* _normalize_hazardous(hazardous)
NormalizeHazardous(hazardous) == PyBool(Upper(hazardous) = PyStr(<<"Y">>))

\* The body of the loop of load_neos on one data row: the row is skipped
\* when its designation is empty, else a NearEarthObject is constructed.
LoadRow(row) ==
    IF IsEmpty(row.designation) THEN [exc |-> "skipped", neo |-> NoObject]
    ELSE NearEarthObjectInit(row.designation,
             IF row.name = PyStr(<<>>) THEN PyNone ELSE row.name,
             NormalizeDiameter(row.diameter),
             NormalizeHazardous(row.hazardous))

\* A direct call of the constructor.
NewNearEarthObject ==
    /\ call.op = "none"
    /\ args.kind = "call"
    /\ call' = [op |-> "NearEarthObject", arg |-> PyNone]
    /\ obj' = NearEarthObjectInit(args.designation, args.name, args.diameter,
                                  args.hazardous)
    /\ err' = obj'.exc
    /\ UNCHANGED <<ret, args, dbVars, genVars, factoryVars, limitVars>>

\* load_neos reading one row of the CSV file.
LoadNeo ==
    /\ call.op = "none"
    /\ args.kind = "row"
    /\ call' = [op |-> "load_neos", arg |-> PyNone]
    /\ obj' = LoadRow(args)
    /\ err' = IF obj'.exc = "skipped" THEN "none" ELSE obj'.exc
    /\ UNCHANGED <<ret, args, dbVars, genVars, factoryVars, limitVars>>

CallArgs ==
    [kind : {"call"},
     designation : {PyStr(<<"a", "1">>), PyStr(<<>>), PyNone},
     name : {PyNone, PyStr(<<>>), PyStr(<<"x">>)},
     diameter : {PyNone, PyFloat(2), PyFloat(0), NaN, PyInt(3),
                 PyStr(<<"n", "a", "n">>), PyStr(<<"1", "2">>), PyStr(<<>>)},
     hazardous : {PyBool(FALSE), PyBool(TRUE)}]

Rows ==
    [kind : {"row"},
     designation : {PyStr(<<"a", "1">>), PyStr(<<>>)},
     name : {PyStr(<<>>), PyStr(<<"x">>)},
     diameter : {PyStr(<<>>), PyStr(<<"1", "2">>), PyStr(<<"x">>), PyStr(<<"0">>)},
     hazardous : {PyStr(<<"Y">>), PyStr(<<"y">>), PyStr(<<"N">>), PyStr(<<>>)}]

InitNeo ==
    /\ neos = <<>>
    /\ approaches = <<>>
    /\ designation_to_neo = EmptyDict
    /\ name_to_neo = EmptyDict
    /\ pc = "new"
    /\ call = [op |-> "none", arg |-> PyNone]
    /\ ret = NoNeo
    /\ err = "none"
    /\ filters = <<>>
    /\ cursor = NoCursor
    /\ out = <<>>
    /\ second = NoSecond
    /\ criteria = <<>>
    /\ args \in CallArgs \cup Rows
    /\ obj = [exc |-> "none", neo |-> NoObject]
    /\ iterator = [items |-> <<>>, pulled |-> 0]
    /\ n = PyNone
    /\ islice = [state |-> "none", count |-> 0, out |-> <<>>]

NextNeo ==
    \/ NewNearEarthObject
    \/ LoadNeo

SpecNeo == InitNeo /\ [][NextNeo]_vars

\* The diameter given is missing: omitted, empty or not a number.
DiameterMissing(diameter) ==
    \/ diameter = PyNone
    \/ diameter.t = "str" /\ Float(diameter).t = "ValueError"

\* C9: constructing a NearEarthObject with a non-empty designation turns a
\* missing diameter (or one that failed to parse) into the unknown diameter
\* and a missing name into None; the name is never the empty string, and the
\* construction does not fail because the diameter or the name was omitted.
C9_MissingFieldsNormalized ==
    (/\ call.op \in {"NearEarthObject", "load_neos"}
     /\ args.designation.t = "str"
     /\ args.designation.s # <<>>) =>
        /\ DiameterMissing(args.diameter) =>
              /\ obj.exc = "none"
              /\ obj.neo.diameter = NaN
        /\ obj.exc = "none" =>
              /\ obj.neo.name # PyStr(<<>>)
              /\ args.name \in {PyNone, PyStr(<<>>)} => obj.neo.name = PyNone

\* What load_neos does hold to: a row with a designation and an empty or
\* unparsable diameter gives a NEO of unknown diameter, and an empty name
\* becomes None.
LoadedRowsNormalized ==
    (call.op = "load_neos" /\ args.designation.s # <<>>) =>
        /\ DiameterMissing(args.diameter) =>
              /\ obj.exc = "none"
              /\ obj.neo.diameter = NaN
        /\ obj.exc = "none" =>
              /\ obj.neo.name # PyStr(<<>>)
              /\ args.name = PyStr(<<>>) => obj.neo.name = PyNone

(***************************************************************************)
(* The reading specification: once the database is built, lookups, queries *)
(* with at most one predicate and iteration steps come in any order.       *)
(***************************************************************************)
ShortFilterLists == SeqsOf(FilterPool, 0, 1)

NextRead ==
    \/ Construct
    \/ \E key \in {PyStr(<<"N", "2">>), PyStr(<<"c", "1">>)} : GetNeoByDesignation(key)
    \/ \E key \in NameKeys : GetNeoByName(key)
    \/ \E fs \in ShortFilterLists : Query(fs)
    \/ QueryNext

SpecRead == InitQuery /\ [][NextRead]_vars

\* What linking wrote: both indices, every NEO's approaches list and every
\* approach's neo reference are the same in the next state.
LinksUnchanged ==
    /\ designation_to_neo' = designation_to_neo
    /\ name_to_neo' = name_to_neo
    /\ Len(neos') = Len(neos)
    /\ \A i \in 1..Len(neos) : neos'[i].approaches = neos[i].approaches
    /\ Len(approaches') = Len(approaches)
    /\ \A j \in 1..Len(approaches) : approaches'[j].neo = approaches[j].neo

\* C11: once the construction has completed, no call of query, no step of
\* its result stream (taken to the end or abandoned), no lookup and no
\* predicate evaluation changes the two indices, a NEO's approaches list or
\* an approach's neo reference.
C11_ReadsLeaveLinksUnchanged == [][pc = "ready" => LinksUnchanged]_vars

C11_Witness ==
    /\ pc = "ready"
    /\ call.op = "get_neo_by_name"
    /\ ret # NoNeo
    /\ cursor.state = "suspended"
    /\ Len(filters) = 1
    /\ Len(out) = 1
    /\ cursor.pos < Len(approaches)
    /\ approaches[out[1]].neo # NoNeo
    /\ neos[approaches[out[1]].neo].approaches # <<>>

(***************************************************************************)
(* The streaming specification: limit(db.query(filters), n), the way the   *)
(* result of a query is capped before it is consumed.                      *)
(***************************************************************************)
\* limit(stream, cap) on the result stream of the query just made.
LimitQuery(cap) ==
    /\ cursor.state = "created"
    /\ islice.state = "none"
    /\ n' = cap
    /\ call' = [op |-> "limit", arg |-> cap]
    /\ IF Unlimited(cap)
       THEN /\ islice' = [islice EXCEPT !.state = "iterator"]
            /\ err' = "none"
       ELSE IF cap.v < 0
       THEN /\ islice' = [islice EXCEPT !.state = "done"]
            /\ err' = "ValueError"
       ELSE /\ islice' = [islice EXCEPT !.state = "islice"]
            /\ err' = "none"
    /\ UNCHANGED <<ret, iterator, dbVars, genVars, factoryVars, entityVars>>

\* (Faulty variant first: the upstream is pulled before the cap is looked at.)
StreamNextLookahead ==
    /\ islice.state \in {"iterator", "islice"}
    /\ cursor.state \in {"created", "suspended"}
    /\ call' = [op |-> "next", arg |-> PyNone]
    /\ LET r == Resume(filters, cursor.pos + 1, approaches, neos)
           spent == islice.state = "islice" /\ IsliceSpent(islice.count, n)
       IN IF r.kind = "yield"
          THEN /\ cursor' = [state |-> "suspended", pos |-> r.at, exc |-> "none"]
               /\ out' = Append(out, r.at)
               /\ IF spent
                  THEN /\ islice' = [islice EXCEPT !.state = "done"]
                       /\ ret' = NoNeo
                       /\ err' = "StopIteration"
                  ELSE /\ islice' = [islice EXCEPT !.count = @ + 1,
                                                   !.out = Append(@, r.at)]
                       /\ ret' = r.at
                       /\ err' = "none"
          ELSE /\ cursor' = [state |-> "done", pos |-> r.at, exc |-> r.kind]
               /\ out' = out
               /\ islice' = [islice EXCEPT !.state = "done"]
               /\ ret' = NoNeo
               /\ err' = r.kind
    /\ UNCHANGED <<filters, second, iterator, n, dbVars, factoryVars, entityVars>>

\* next() on what limit returned: islice stops without touching the stream
\* once it has produced its n items, else it resumes the generator.
StreamNext ==
    /\ islice.state \in {"iterator", "islice"}
    /\ cursor.state \in {"created", "suspended"}
    /\ call' = [op |-> "next", arg |-> PyNone]
    /\ IF islice.state = "islice" /\ IsliceSpent(islice.count, n)
       THEN /\ islice' = [islice EXCEPT !.state = "done"]
            /\ ret' = NoNeo
            /\ err' = "StopIteration"
            /\ UNCHANGED <<cursor, out>>
       ELSE LET r == Resume(filters, cursor.pos + 1, approaches, neos)
            IN IF r.kind = "yield"
               THEN /\ cursor' = [state |-> "suspended", pos |-> r.at, exc |-> "none"]
                    /\ out' = Append(out, r.at)
                    /\ islice' = [islice EXCEPT !.count = @ + 1,
                                                !.out = Append(@, r.at)]
                    /\ ret' = r.at
                    /\ err' = "none"
               ELSE /\ cursor' = [state |-> "done", pos |-> r.at, exc |-> r.kind]
                    /\ out' = out
                    /\ islice' = [islice EXCEPT !.state = "done"]
                    /\ ret' = NoNeo
                    /\ err' = r.kind
    /\ UNCHANGED <<filters, second, iterator, n, dbVars, factoryVars, entityVars>>

NextStream ==
    \/ Construct
    \/ /\ cursor.state = "none"
       /\ \E fs \in ShortFilterLists : Query(fs)
    \/ \E cap \in Caps : LimitQuery(cap)
    \/ StreamNext

SpecStream == InitQuery /\ [][NextStream]_vars

\* C12: with a positive cap k the limited stream pulls at most k items from
\* the query stream, which stays suspended at its k-th match, so that no
\* predicate is evaluated on an approach after the k-th matching one; and the
\* call of limit itself pulls nothing.
C12_LimitPullsLazily ==
    LET all == Drain(filters, 1, approaches, neos, <<>>).out
    IN /\ call.op = "limit" =>
             /\ cursor = [state |-> "created", pos |-> 0, exc |-> "none"]
             /\ out = <<>>
       /\ (islice.state \in {"islice", "done"} /\ n # PyNone /\ n.v > 0) =>
             /\ Len(out) <= n.v
             /\ islice.out = out
             /\ Len(all) >= n.v => cursor.pos <= all[n.v]
             /\ Len(out) = n.v =>
                   /\ cursor.state = "suspended"
                   /\ cursor.pos = all[n.v]

C12_Witness ==
    /\ islice.state = "done"
    /\ err = "StopIteration"
    /\ n = PyInt(1)
    /\ Len(filters) = 1
    /\ Len(out) = 1
    /\ cursor.state = "suspended"
    /\ out[1] = 1
    /\ Len(approaches) = 2
    /\ FilterCall(filters[1], approaches[2], neos) = "True"

(***************************************************************************)
(* The two-stream specification: query is called twice with the same       *)
(* filters and the two result streams are advanced in any interleaving.    *)
(***************************************************************************)
\* A second db.query(filters): a generator of its own, not yet started.
QuerySecond ==
    /\ pc = "ready"
    /\ cursor.state # "none"
    /\ second.cursor.state = "none"
    /\ second' = [cursor |-> [state |-> "created", pos |-> 0, exc |-> "none"],
                  out |-> <<>>]
    /\ call' = [op |-> "query", arg |-> PyNone]
    /\ ret' = NoNeo
    /\ err' = "none"
    /\ UNCHANGED <<filters, cursor, out, dbVars, factoryVars, entityVars, limitVars>>

\* (Faulty variant first: the two streams share one position in _approaches.)
SecondNextSharedCursor ==
    /\ second.cursor.state \in {"created", "suspended"}
    /\ LET from == IF cursor.pos > second.cursor.pos THEN cursor.pos
                   ELSE second.cursor.pos
           r == Resume(filters, from + 1, approaches, neos)
       IN IF r.kind = "yield"
          THEN /\ second' = [cursor |-> [state |-> "suspended", pos |-> r.at,
                                         exc |-> "none"],
                             out |-> Append(second.out, r.at)]
               /\ ret' = r.at
               /\ err' = "none"
          ELSE /\ second' = [cursor |-> [state |-> "done", pos |-> r.at,
                                         exc |-> r.kind],
                             out |-> second.out]
               /\ ret' = NoNeo
               /\ err' = r.kind
    /\ call' = [op |-> "next", arg |-> PyNone]
    /\ UNCHANGED <<filters, cursor, out, dbVars, factoryVars, entityVars, limitVars>>

\* next() on the second result stream: it resumes in its own frame.
SecondNext ==
    /\ second.cursor.state \in {"created", "suspended"}
    /\ LET r == Resume(filters, second.cursor.pos + 1, approaches, neos)
       IN IF r.kind = "yield"
          THEN /\ second' = [cursor |-> [state |-> "suspended", pos |-> r.at,
                                         exc |-> "none"],
                             out |-> Append(second.out, r.at)]
               /\ ret' = r.at
               /\ err' = "none"
          ELSE /\ second' = [cursor |-> [state |-> "done", pos |-> r.at,
                                         exc |-> r.kind],
                             out |-> second.out]
               /\ ret' = NoNeo
               /\ err' = r.kind
    /\ call' = [op |-> "next", arg |-> PyNone]
    /\ UNCHANGED <<filters, cursor, out, dbVars, factoryVars, entityVars, limitVars>>

NextTwo ==
    \/ Construct
    \/ /\ cursor.state = "none"
       /\ \E fs \in ShortFilterLists : Query(fs)
    \/ QuerySecond
    \/ QueryNext
    \/ SecondNext

SpecTwo == InitQuery /\ [][NextTwo]_vars

\* s is the beginning of q.
IsPrefix(s, q) == Len(s) <= Len(q) /\ s = SubSeq(q, 1, Len(s))

\* A stream has yielded the beginning of the full sequence of matches, and
\* all of it, with the same ending, once it is finished.
YieldsFromTheStart(c, o, all) ==
    /\ IsPrefix(o, all.out)
    /\ c.state = "done" => (o = all.out /\ c.exc = all.exc)

\* C13: each call of query traverses the collection from its first approach:
\* two result streams of the same filters, advanced in any interleaving or
\* abandoned part-way, each yield the full sequence of matches from its
\* start, however far the other has advanced.
C13_EachQueryStartsAfresh ==
    LET all == Drain(filters, 1, approaches, neos, <<>>)
    IN /\ cursor.state # "none" => YieldsFromTheStart(cursor, out, all)
       /\ second.cursor.state # "none" =>
             /\ YieldsFromTheStart(second.cursor, second.out, all)
             /\ IsPrefix(out, second.out) \/ IsPrefix(second.out, out)
       /\ (cursor.state = "done" /\ second.cursor.state = "done") =>
             second.out = out

C13_Witness ==
    /\ cursor.state = "suspended"
    /\ Len(out) = 1
    /\ second.cursor.state = "done"
    /\ second.cursor.exc = "StopIteration"
    /\ Len(second.out) = 2
    /\ second.out[1] = out[1]
    /\ Len(filters) = 1

(***************************************************************************)
(* The state a failed construction leaves behind (Spec).                   *)
(***************************************************************************)
\* Approach j's designation is the designation of some NEO, case ignored.
Known(j) == \E i \in 1..Len(neos) : SameDesignation(i, j)

\* Approach j is in NEO i's approaches list.
Listed(i, j) == \E k \in 1..Len(neos[i].approaches) : neos[i].approaches[k] = j

\* C14: when the construction fails with a KeyError at the first approach
\* whose designation matches no NEO, every approach before it stays linked
\* (its neo is set and it is in that NEO's approaches list), and that
\* approach and every later one have no neo and are in no NEO's list.
C14_FailedConstructionKeepsLinks ==
    pc = "failed" =>
        /\ err = "KeyError"
        /\ \E f \in 1..Len(approaches) :
              /\ ~Known(f)
              /\ \A j \in 1..(f - 1) :
                    /\ Known(j)
                    /\ approaches[j].neo # NoNeo
                    /\ SameDesignation(approaches[j].neo, j)
                    /\ \A i \in 1..Len(neos) :
                          Listed(i, j) <=> i = approaches[j].neo
              /\ \A j \in f..Len(approaches) :
                    /\ approaches[j].neo = NoNeo
                    /\ \A i \in 1..Len(neos) : ~Listed(i, j)

C14_Witness ==
    /\ pc = "failed"
    /\ Len(approaches) = 2
    /\ Known(1)
    /\ ~Known(2)
    /\ approaches[1].neo # NoNeo
    /\ neos[approaches[1].neo].approaches = <<1>>
    /\ approaches[1].designation # neos[approaches[1].neo].designation

====
